---------------------------- MODULE Spec2Model ----------------------------
(***************************************************************************)
(* Turbocamera: a two-node contactless body-temperature screen.            *)
(*                                                                         *)
(*   src/final_camera.py  camera node: per frame, estimates a temperature  *)
(*                        and writes one text line on the serial link.     *)
(*   src/esp32.py         display node: polls a ranging sensor and the     *)
(*                        serial link, drives the OLED, two LEDs and the   *)
(*                        telemetry POST.                                  *)
(*                                                                         *)
(* Numbers.  The Python floats are modelled as exact rationals <<n, d>>    *)
(* with d > 0; None is the empty tuple.  Distances are integers in         *)
(* thousandths of a centimetre.  Serial data are sequences of one          *)
(* character strings.  Time is in milliseconds.                            *)
(***************************************************************************)
EXTENDS Integers, Sequences, FiniteSets, TLC

None == <<>>

(***************************************************************************)
(* Rational arithmetic.                                                    *)
(***************************************************************************)
Abs(i) == IF i < 0 THEN -i ELSE i

RECURSIVE Gcd(_, _)
Gcd(a, b) == IF b = 0 THEN a ELSE Gcd(b, a % b)

Norm(n, d) == LET g == Gcd(Abs(n), d) IN <<n \div g, d \div g>>

R(n, d) == Norm(n, d)
RAdd(a, b) == Norm(a[1] * b[2] + b[1] * a[2], a[2] * b[2])
RMul(a, b) == Norm(a[1] * b[1], a[2] * b[2])
RLt(a, b) == a[1] * b[2] < b[1] * a[2]
RLe(a, b) == a[1] * b[2] <= b[1] * a[2]
RMax(a, b) == IF RLt(a, b) THEN b ELSE a
RMin(a, b) == IF RLt(b, a) THEN b ELSE a

RECURSIVE Pow10(_)
Pow10(k) == IF k = 0 THEN 1 ELSE 10 * Pow10(k - 1)

(***************************************************************************)
(* Text: str.strip, str.split, the  in  test, float() and "%.2f".          *)
(***************************************************************************)
DigitChars == <<"0", "1", "2", "3", "4", "5", "6", "7", "8", "9">>
IsDigit(c) == \E i \in 1..10 : DigitChars[i] = c
DigitVal(c) == (CHOOSE i \in 1..10 : DigitChars[i] = c) - 1
Whitespace == {" ", "\n", "\r", "\t"}
\* a byte that is no valid UTF-8 (line noise): bytes.decode raises on it
InvalidByte == "\\xff"

RECURSIVE LStrip(_)
LStrip(s) ==
    IF s # <<>> /\ Head(s) \in Whitespace THEN LStrip(Tail(s)) ELSE s

RECURSIVE RStrip(_)
RStrip(s) ==
    IF s # <<>> /\ s[Len(s)] \in Whitespace
    THEN RStrip(SubSeq(s, 1, Len(s) - 1)) ELSE s

Strip(s) == RStrip(LStrip(s))

\* pat in text
Contains(text, pat) ==
    \E i \in 1..(Len(text) - Len(pat) + 1) :
        SubSeq(text, i, i + Len(pat) - 1) = pat

HasChar(text, c) == \E i \in 1..Len(text) : text[i] = c

\* text.split(sep) for a one character separator
RECURSIVE Split(_, _)
Split(text, sep) ==
    IF ~HasChar(text, sep) THEN <<text>>
    ELSE LET i == CHOOSE k \in 1..Len(text) :
                     text[k] = sep /\ \A j \in 1..(k - 1) : text[j] # sep
         IN <<SubSeq(text, 1, i - 1)>> \o Split(SubSeq(text, i + 1, Len(text)), sep)

RECURSIVE DigitsVal(_)
DigitsVal(s) ==
    IF s = <<>> THEN 0
    ELSE 10 * DigitsVal(SubSeq(s, 1, Len(s) - 1)) + DigitVal(s[Len(s)])

\* float(s): None stands for ValueError.  Decimal literals only: optional
\* surrounding whitespace, optional sign, digits with at most one point and
\* at least one digit.  (Exponents, inf and nan are not among the texts
\* this model feeds it.)
ParseFloat(s0) ==
    LET s == Strip(s0)
        signed == s # <<>> /\ s[1] \in {"+", "-"}
        body == IF signed THEN Tail(s) ELSE s
        dots == {i \in 1..Len(body) : body[i] = "."}
        wellFormed ==
            /\ \A i \in 1..Len(body) : IsDigit(body[i]) \/ body[i] = "."
            /\ Cardinality(dots) <= 1
            /\ \E i \in 1..Len(body) : IsDigit(body[i])
        p == IF dots = {} THEN Len(body) + 1 ELSE CHOOSE i \in dots : TRUE
        intPart == SubSeq(body, 1, p - 1)
        fracPart == SubSeq(body, p + 1, Len(body))
        mag == DigitsVal(intPart \o fracPart)
    IN IF ~wellFormed THEN None
       ELSE Norm(IF signed /\ s[1] = "-" THEN -mag ELSE mag, Pow10(Len(fracPart)))

\* the value of r in hundredths, rounded to nearest (ties to even)
Round2(r) ==
    LET m == Abs(r[1]) * 100
        q == m \div r[2]
        rem == m % r[2]
        up == IF 2 * rem > r[2] THEN 1
              ELSE IF 2 * rem = r[2] THEN q % 2 ELSE 0
    IN (IF r[1] < 0 THEN -1 ELSE 1) * (q + up)

RECURSIVE NatChars(_)
NatChars(n) ==
    IF n < 10 THEN <<DigitChars[n + 1]>>
    ELSE NatChars(n \div 10) \o <<DigitChars[(n % 10) + 1]>>

\* a "%.2f" that cuts the third decimal off instead of rounding
Format2_Truncating(r) ==
    LET h == (Abs(r[1]) * 100) \div r[2]
    IN (IF r[1] < 0 THEN <<"-">> ELSE <<>>)
       \o NatChars(h \div 100) \o <<".">>
       \o <<DigitChars[((h \div 10) % 10) + 1], DigitChars[(h % 10) + 1]>>

\* "%.2f" % r
Format2(r) ==
    LET h == Abs(Round2(r))
    IN (IF r[1] < 0 THEN <<"-">> ELSE <<>>)
       \o NatChars(h \div 100) \o <<".">>
       \o <<DigitChars[((h \div 10) % 10) + 1], DigitChars[(h % 10) + 1]>>


(***************************************************************************)
(* Serial protocol, camera side: the two lines the camera node writes.     *)
(***************************************************************************)
NL == "\n"
IDLE_TAG == <<"I", "D", "L", "E">>

\* uart.write("%.2f;%.2f\n" % (final_temp, fpa_temp))
MeasurementLine(final_temp, fpa_temp) ==
    Format2(final_temp) \o <<";">> \o Format2(fpa_temp) \o <<NL>>

\* uart.write("IDLE;FPA:%.2f;OBS:0\n" % fpa_temp)
IdleLine(fpa_temp) ==
    IDLE_TAG \o <<";", "F", "P", "A", ":">> \o Format2(fpa_temp)
             \o <<";", "O", "B", "S", ":", "0", NL>>

(***************************************************************************)
(* Serial protocol, display side: get_temperatures.                        *)
(***************************************************************************)
\* uart.readline(): the bytes up to and including the first line feed, or,
\* when the buffer holds no line feed, every byte there is (the read does
\* not wait for the rest of the line).
ReadLine(buf) ==
    IF HasChar(buf, NL)
    THEN SubSeq(buf, 1, CHOOSE k \in 1..Len(buf) :
                            buf[k] = NL /\ \A j \in 1..(k - 1) : buf[j] # NL)
    ELSE buf

\* while uart.any(): temp_line = uart.readline(); last_line = temp_line
RECURSIVE LastLine(_)
LastLine(buf) ==
    LET temp_line == ReadLine(buf)
        rest == SubSeq(buf, Len(temp_line) + 1, Len(buf))
    IN IF rest = <<>> THEN temp_line ELSE LastLine(rest)

\* the ambient field: a labelled sub-field "FPA:<value>" or a bare number
ParseAmbient(raw_amb) ==
    IF HasChar(raw_amb, ":")
    THEN LET sub == Split(raw_amb, ":") IN ParseFloat(sub[Len(sub)])
    ELSE ParseFloat(raw_amb)

\* a parse that takes the ambient value of a heartbeat from its FPA field
ParseText_IdleAmbient(text) ==
    IF ~HasChar(text, ";") THEN <<None, None>>
    ELSE LET parts == Split(text, ";")
         IN IF Len(parts) < 2 THEN <<None, None>>
            ELSE IF Contains(text, IDLE_TAG)
            THEN <<None, ParseAmbient(parts[2])>>
            ELSE LET body == ParseFloat(parts[1])
                     amb == ParseAmbient(parts[2])
                 IN IF body = None \/ amb = None
                    THEN <<None, None>>
                    ELSE <<body, amb>>

\* a parse that keeps the body value when the ambient field fails
ParseText_Partial(text) ==
    IF Contains(text, IDLE_TAG) THEN <<None, None>>
    ELSE IF ~HasChar(text, ";") THEN <<None, None>>
    ELSE LET parts == Split(text, ";")
         IN IF Len(parts) < 2 THEN <<None, None>>
            ELSE <<ParseFloat(parts[1]), ParseAmbient(parts[2])>>

\* the parse of one line after decode and strip: <<body, amb>>
ParseText(text) ==
    IF Contains(text, IDLE_TAG) THEN <<None, None>>
    ELSE IF ~HasChar(text, ";") THEN <<None, None>>
    ELSE LET parts == Split(text, ";")
         IN IF Len(parts) < 2 THEN <<None, None>>
            ELSE LET body == ParseFloat(parts[1])
                     amb == ParseAmbient(parts[2])
                 IN IF body = None \/ amb = None   \* float() raised
                    THEN <<None, None>>
                    ELSE <<body, amb>>

\* get_temperatures() on a receive buffer holding buf; it leaves the
\* buffer empty.  The result is the tuple (body_temp, ambient_temp).
get_temperatures(buf) ==
    IF buf = <<>> THEN <<None, None>>
    ELSE LET last_line == LastLine(buf)
         IN IF HasChar(last_line, InvalidByte)   \* decode("utf-8") raised
            THEN <<None, None>>
            ELSE ParseText(Strip(last_line))

(***************************************************************************)
(* Camera node: calibration constants and the temperature estimate.        *)
(***************************************************************************)
BASE_TEMP == R(366, 10)           \* 36.6
GAIN == R(15, 100)                \* 0.15
TARGET_DIFF == 68
OFFSET_BANGS == R(2, 10)          \* 0.2
OFFSET_GLASSES == R(5, 10)        \* 0.5
TEMP_MIN == R(32, 1)
TEMP_MAX == R(42, 1)

\* temp_change = (max_val - bg_level) - TARGET_DIFF
TempChange(max_val, bg_level) == (max_val - bg_level) - TARGET_DIFF

\* the filter with its two weights exchanged
LowPass_Swapped(delta, temp_change) ==
    RAdd(RMul(delta, R(2, 10)), RMul(R(temp_change, 1), R(8, 10)))

\* delta_filtered = (delta_filtered * 0.8) + (temp_change * 0.2)
LowPass(delta, temp_change) ==
    RAdd(RMul(delta, R(8, 10)), RMul(R(temp_change, 1), R(2, 10)))

\* delta_filtered = delta_filtered * 0.95
Decay(delta) == RMul(delta, R(95, 100))

\* raw_temp = BASE_TEMP + (delta_filtered * GAIN)
RawTemp(delta) == RAdd(BASE_TEMP, RMul(delta, GAIN))

\* final_temp = max(32.0, min(42.0, final_temp))
Clamp(t) == RMax(TEMP_MIN, RMin(TEMP_MAX, t))

\* the clamp applied before the offsets instead of after them
FinalTemp_ClampFirst(raw_temp, bangs, glasses) ==
    LET clamped == Clamp(raw_temp)
        with_bangs == IF bangs THEN RAdd(clamped, OFFSET_BANGS) ELSE clamped
    IN IF glasses THEN RAdd(with_bangs, OFFSET_GLASSES) ELSE with_bangs

\* final_temp: raw_temp, plus the offsets of the obstructions, clamped
FinalTemp(raw_temp, bangs, glasses) ==
    LET with_bangs == IF bangs THEN RAdd(raw_temp, OFFSET_BANGS) ELSE raw_temp
        with_glasses == IF glasses THEN RAdd(with_bangs, OFFSET_GLASSES)
                        ELSE with_bangs
    IN Clamp(with_glasses)

(***************************************************************************)
(* Camera node: body and face detection.  A blob is <<w, h, pixels>>, the  *)
(* width and height of its bounding box and its pixel count.  An image is  *)
(* a record of what the library calls of one iteration return on it:       *)
(*   bodies         img.find_blobs(...) over the frame (line 165)          *)
(*   faces          img.find_blobs(...) over the head region (line 93)     *)
(*   bg_level       the mean of ANCHOR_ROI (line 158)                      *)
(*   face_max       the maximum over the face rectangle (lines 129, 188)   *)
(*   forehead_mean, eyes_mean   the means of the two bands (130, 131)      *)
(*   roi_checked    whether the library raises ValueError on a region of   *)
(*                  height 0 (OpenMV does: "Invalid ROI dimensions!") or   *)
(*                  finds nothing in it                                    *)
(***************************************************************************)
FACE_TOP_RATIO == R(50, 100)      \* 0.50
BODY_MIN_PIXELS == 80
FACE_MIN_PIXELS == 15
OBSTRUCTION_THRESHOLD == 28
ASPECT_MIN == R(5, 10)            \* 0.5
ASPECT_MAX == R(14, 10)           \* 1.4
BAND_RATIO == R(25, 100)          \* 0.25

Blob(w, h, pixels) == <<w, h, pixels>>
Raised == <<"ValueError">>

\* int(r) for r >= 0
IntTrunc(r) == r[1] \div r[2]

\* max(blobs, key=lambda b: b.pixels()): the first blob with the most pixels
Largest(blobs) ==
    blobs[CHOOSE i \in 1..Len(blobs) :
              /\ \A j \in 1..Len(blobs) : blobs[j][3] <= blobs[i][3]
              /\ \A j \in 1..(i - 1) : blobs[j][3] < blobs[i][3]]

\* head_h = int(body_blob.h() * FACE_TOP_RATIO)
head_h(body_blob) == IntTrunc(RMul(R(body_blob[2], 1), FACE_TOP_RATIO))

\* the aspect filter letting blobs up to twice as wide as high through
valid_face_wide(f) ==
    RLe(ASPECT_MIN, R(f[1], f[2])) /\ RLe(R(f[1], f[2]), R(2, 1))

\* the aspect filter with its upper end left out
valid_face_open(f) ==
    RLe(ASPECT_MIN, R(f[1], f[2])) /\ RLt(R(f[1], f[2]), ASPECT_MAX)

\* 0.5 <= (f.w() / f.h()) <= 1.4
valid_face(f) ==
    RLe(ASPECT_MIN, R(f[1], f[2])) /\ RLe(R(f[1], f[2]), ASPECT_MAX)

\* extract_face(img, body_blob): a face blob, None, or Raised when
\* get_statistics rejects the head region
extract_face(img, body_blob) ==
    LET faces == IF head_h(body_blob) < 1 THEN <<>> ELSE img.faces
        valid_faces == SelectSeq(faces, valid_face)
    IN IF head_h(body_blob) < 1 /\ img.roi_checked THEN Raised
       ELSE IF faces = <<>> THEN None
       ELSE IF valid_faces # <<>> THEN Largest(valid_faces) ELSE None

\* the height int(fh * 0.25) of the forehead band and of the eye band
band_h(face_blob) == IntTrunc(RMul(R(face_blob[2], 1), BAND_RATIO))

\* forehead_roi = (fx, fy, fw, int(fh * 0.25)) and
\* eyes_roi = (fx, fy + int(fh * 0.25), fw, int(fh * 0.25)), as <<x, y, w, h>>
\* relative to the corner (fx, fy) of the face rectangle
forehead_roi(face_blob) == <<0, 0, face_blob[1], band_h(face_blob)>>
eyes_roi(face_blob) == <<0, band_h(face_blob), face_blob[1], band_h(face_blob)>>

\* analyze_features(img, face_blob): <<has_bangs, has_glasses>>, or Raised
\* when get_statistics rejects a band
analyze_features(img, face_blob) ==
    IF (forehead_roi(face_blob)[4] < 1 \/ eyes_roi(face_blob)[4] < 1)
       /\ img.roi_checked
    THEN Raised
    ELSE <<img.face_max - img.forehead_mean > OBSTRUCTION_THRESHOLD,
           img.face_max - img.eyes_mean > OBSTRUCTION_THRESHOLD>>

(***************************************************************************)
(* Display node: configuration, tick arithmetic and the pure steps of the  *)
(* polling loop.                                                           *)
(***************************************************************************)
ALARM_THRESHOLD == R(375, 10)     \* 37.5 degrees
DISPLAY_HOLD_TIME == 5000         \* ms
STARTUP_OFFSET == 1000            \* ms, the extra offset of the initial lastitt
RANGE_MIN == 40000                \* 40 cm
RANGE_MAX == 80000                \* 80 cm

\* time.ticks_ms() wraps at TICKS_PERIOD and time.ticks_diff is the signed
\* difference within half a period (MicroPython's time module)
TICKS_PERIOD == 2^30
TICKS_HALF == TICKS_PERIOD \div 2
ticks_ms(t) == t % TICKS_PERIOD
ticks_diff(a, b) == ((a - b + TICKS_HALF) % TICKS_PERIOD) - TICKS_HALF

\* try: distance = sensor.distance_cm()  except OSError: distance = 0
ReadDistance(echo) == IF echo.err THEN 0 ELSE echo.d

\* the band with its two ends left out
is_person_in_range_open(distance) == RANGE_MIN < distance /\ distance < RANGE_MAX

is_person_in_range(distance) == RANGE_MIN <= distance /\ distance <= RANGE_MAX

\* the hold test on the time alone
HoldActive_TimeOnly(time_passed, last) == time_passed < DISPLAY_HOLD_TIME

\* time_passed < DISPLAY_HOLD_TIME and last_valid_body_temp is not None
HoldActive(time_passed, last) == time_passed < DISPLAY_HOLD_TIME /\ last # None

\* the alarm test with > for >=
is_alarm_strict(val) == RLt(ALARM_THRESHOLD, val)

\* is_alarm = val >= ALARM_THRESHOLD
is_alarm(val) == RLe(ALARM_THRESHOLD, val)

\* update_display(mode, val) with the LEDs at a and b before the call: what
\* the screen shows and the LED levels after it.
update_display(mode, val, a, b) ==
    IF mode = "IDLE"
    THEN [scr |-> [mode |-> "IDLE", val |-> None, text |-> "SYSTEM GOTOWY"],
          led_a |-> 0, led_b |-> 0]
    ELSE IF mode = "MEASURE" \/ mode = "HOLD"
    THEN IF val # None
         THEN [scr |-> [mode |-> mode, val |-> val,
                        text |-> IF mode = "HOLD" THEN "Ostatni pomiar" ELSE ""],
               led_a |-> IF is_alarm(val) THEN 0 ELSE 1,
               led_b |-> IF is_alarm(val) THEN 1 ELSE 0]
         ELSE [scr |-> [mode |-> mode, val |-> None, text |-> "Pomiar..."],
               led_a |-> a, led_b |-> b]
    ELSE [scr |-> [mode |-> "", val |-> None, text |-> ""],
          led_a |-> a, led_b |-> b]

\* r rounded to the nearest integer (ties to even), as round() does
RoundInt(r) ==
    LET m == Abs(r[1])
        q == m \div r[2]
        rem == m % r[2]
        up == IF 2 * rem > r[2] THEN 1
              ELSE IF 2 * rem = r[2] THEN q % 2 ELSE 0
    IN (IF r[1] < 0 THEN -1 ELSE 1) * (q + up)

\* send_measurement(temperature, distance): the record it posts
\* (Temperature in tenths of a degree, Distance in cm) and what it returns
send_measurement(temperature, distance, net_ok) ==
    [Temperature |-> RoundInt(RMul(temperature, R(10, 1))),
     Distance |-> RoundInt(R(distance, 1000)),
     returned |-> net_ok]

\* the in-range branch dropping the stored value when no body value came
PersonInRange_Forgetting(current_time, t_body, last) ==
    IF t_body # None
    THEN [lastitt |-> current_time, last |-> t_body,
          mode |-> "MEASURE", val |-> t_body, send |-> TRUE]
    ELSE [lastitt |-> current_time, last |-> None,
          mode |-> "MEASURE", val |-> None, send |-> FALSE]

\* the in-range branch showing the placeholder whenever no body value came
PersonInRange_Blank(current_time, t_body, last) ==
    IF t_body # None
    THEN [lastitt |-> current_time, last |-> t_body,
          mode |-> "MEASURE", val |-> t_body, send |-> TRUE]
    ELSE [lastitt |-> current_time, last |-> last,
          mode |-> "MEASURE", val |-> None, send |-> FALSE]

\* if is_person_in_range: the branch of lines 335-350
PersonInRange(current_time, t_body, last) ==
    IF t_body # None
    THEN [lastitt |-> current_time, last |-> t_body,
          mode |-> "MEASURE", val |-> t_body, send |-> TRUE]
    ELSE [lastitt |-> current_time, last |-> last,
          mode |-> "MEASURE", val |-> last, send |-> FALSE]

\* the out-of-range branch accepting a body value that arrives
PersonOutOfRange_Accepting(current_time, t_body, last, itt) ==
    LET kept == IF t_body # None THEN t_body ELSE last
    IN IF HoldActive(ticks_diff(current_time, itt), kept)
       THEN [lastitt |-> itt, last |-> kept, mode |-> "HOLD", val |-> kept,
             send |-> FALSE]
       ELSE [lastitt |-> itt, last |-> kept, mode |-> "IDLE", val |-> None,
             send |-> FALSE]

\* else: the branch of lines 352-362
PersonOutOfRange(current_time, t_body, last, itt) ==
    IF HoldActive(ticks_diff(current_time, itt), last)
    THEN [lastitt |-> itt, last |-> last, mode |-> "HOLD", val |-> last,
          send |-> FALSE]
    ELSE [lastitt |-> itt, last |-> last, mode |-> "IDLE", val |-> None,
          send |-> FALSE]

\* The decision of one loop iteration: from the cycle's inputs and the
\* session state, the new session state, the update_display call and
\* whether send_measurement is called.
MainLoopBody(current_time, distance, temps, last, itt) ==
    IF is_person_in_range(distance)
    THEN PersonInRange(current_time, temps[1], last)
    ELSE PersonOutOfRange(current_time, temps[1], last, itt)

(***************************************************************************)
(* Bounds and input sets of the display node.                              *)
(***************************************************************************)
MaxCycles == 3
MaxClock == 1610640000

\* ticks_ms() when the loop starts (after connect_wifi, at most about 10 s)
BootClocks == {0, 12000}
\* the duration of one iteration: the 50 ms sleep plus the work, which
\* includes the ranging echo wait and the blocking POST
CycleTimes == {50, 4999, 5000}
\* the length of a run of iterations with nobody in range and a silent link
LongRuns == {TICKS_HALF - 6000, TICKS_HALF, TICKS_PERIOD}

Failed == [err |-> TRUE, d |-> 0]
Echo(x) == [err |-> FALSE, d |-> x]
\* ranging reads of a session: a failed read, somebody in range, nobody
SessionEchoes == {Failed, Echo(40000), Echo(80001)}
\* ranging reads around the two ends of the band
Echoes == {Failed} \cup {Echo(x) : x \in {0, 39999, 40000, 60000, 80000, 80001}}

T3680 == R(3680, 100)
T3749 == R(3749, 100)
T3750 == R(3750, 100)
T3780 == R(3780, 100)
A2130 == R(2130, 100)
A2210 == R(2210, 100)

Garbage == <<"g", "a", "r", "b", "a", "g", "e", NL>>
BadBody == <<"3", "6", ".", "6", "0", ":", "x", ";", "2", "2", ".", "1", "0", NL>>
BadAmbient == <<"3", "6", ".", "6", "0", ";", "F", "P", "A", ":", "x", NL>>
Labelled == <<"3", "6", ".", "6", "0", ";", "F", "P", "A", ":", "2", "2", ".", "1", "0", NL>>
OneField == <<"3", "6", ".", "6", "0", NL>>
EmptyField == <<"3", "6", ".", "6", "0", ";", NL>>
Noise == <<"3", "6", ".", "6", "0", ";", InvalidByte, NL>>

\* what the link can have delivered between two polls of a session
SessionInputs ==
    {<<>>, MeasurementLine(T3680, A2210), MeasurementLine(T3749, A2210),
     MeasurementLine(T3750, A2210), IdleLine(A2130), Garbage}

\* the first bytes of a line whose rest is still on the wire, and that rest
Fragments ==
    {SubSeq(MeasurementLine(T3780, A2210), 1, k) : k \in {2, 6, 7, 11}}
    \cup {SubSeq(MeasurementLine(T3780, A2210), 3, 12)}

MalformedLines == {<<NL>>, Garbage, OneField, BadBody, BadAmbient, EmptyField, Noise}

\* temperatures with a third decimal, to be rounded by the encoder
EncodedBodies == {R(32000, 1000), R(36604, 1000), R(36605, 1000),
                  R(37495, 1000), R(41996, 1000), R(42000, 1000)}
EncodedAmbients == {R(-5255, 1000), R(-4, 1000), R(0, 1), R(21300, 1000),
                    R(22106, 1000), R(100000, 1000)}

\* receive buffers for one call of get_temperatures: nothing, one line of
\* either kind, malformed lines, several lines, lines followed by a
\* fragment, a fragment alone
DecoderInputs ==
    SessionInputs \cup MalformedLines \cup {Labelled}
    \cup {MeasurementLine(b, a) : b \in EncodedBodies, a \in EncodedAmbients}
    \cup {IdleLine(a) : a \in EncodedAmbients}
    \cup {MeasurementLine(T3750, A2210) \o MeasurementLine(T3680, A2210),
          MeasurementLine(T3680, A2210) \o IdleLine(A2130),
          IdleLine(A2130) \o MeasurementLine(T3749, A2210),
          Garbage \o MeasurementLine(T3749, A2210)}
    \cup {MeasurementLine(T3680, A2210) \o f : f \in Fragments}
    \cup Fragments

(***************************************************************************)
(* State.                                                                  *)
(***************************************************************************)
VARIABLES
    clock,                 \* ms since power-on when the next iteration starts
    rx,                    \* the display node's UART receive buffer
    last_valid_body_temp,  \* None or the last accepted body temperature
    lastitt,               \* tick value of the last detection
    led_a,                 \* normal (green) indicator
    led_b,                 \* alarm (red) indicator
    scr,                   \* the frame buffer update_display drew last
    oled,                  \* what the OLED panel shows
    cycles,                \* iterations run so far
    lastSeen,              \* clock of the last iteration with presence, -1 if none
    obs,                   \* what the last iteration read and did
    delta_filtered,        \* camera node: the filtered thermal difference
    frames,                \* camera node: frames processed so far
    cam,                   \* camera node: what the last frame's iteration did
    running,               \* camera node: the script has not ended
    seen,                  \* camera node: what detection found in the last frame
    wire,                  \* bytes the camera wrote that the display node's
                           \* UART has not received yet
    emitted                \* the body temperatures written so far, in
                           \* hundredths of a degree as written

displayVars == <<clock, rx, last_valid_body_temp, lastitt, led_a, led_b, scr,
                 oled, cycles, lastSeen, obs>>
cameraVars == <<delta_filtered, frames, cam, running, seen, wire, emitted>>
vars == <<displayVars, cameraVars>>

NoObs ==
    [ran |-> FALSE, at |-> 0, echo_err |-> FALSE,
     distance |-> 0, present |-> FALSE, buf |-> <<>>, t_body |-> None,
     t_amb |-> None, mode |-> "", val |-> None, shown |-> FALSE,
     post |-> None]

NoFrame ==
    [ran |-> FALSE, face_found |-> FALSE, bangs |-> FALSE, glasses |-> FALSE,
     temp_change |-> 0, raw_temp |-> None, final_temp |-> None,
     written |-> <<>>]

NoSeen == [main_body |-> None, faces |-> <<>>, face |-> None]

Init ==
    /\ clock \in BootClocks
    /\ rx = <<>>
    /\ last_valid_body_temp = None
    /\ lastitt = ticks_ms(clock) - DISPLAY_HOLD_TIME - STARTUP_OFFSET
    /\ led_a = 0
    /\ led_b = 0
    /\ scr = [mode |-> "", val |-> None, text |-> ""]
    /\ oled = [mode |-> "", val |-> None, text |-> ""]
    /\ cycles = 0
    /\ lastSeen = -1
    /\ obs = NoObs
    /\ delta_filtered = R(0, 1)
    /\ frames = 0
    /\ cam = NoFrame
    /\ running = TRUE
    /\ seen = NoSeen
    /\ wire = <<>>
    /\ emitted = {}

(***************************************************************************)
(* Actions of the display node.                                            *)
(***************************************************************************)
\* One iteration of the main loop (the body of  while True), starting
\* skipped ms after the previous one ended and lasting dt ms.  bytes is
\* what the link delivered into the receive buffer since the last poll.
\* i2c_ok: scr.show() reaches the panel; when it does not it raises
\* OSError at the end of update_display, after the LEDs were written, and
\* the handler of line 364 ends the iteration before send_measurement.
Iteration(bytes, echo, skipped, dt, i2c_ok) ==
    /\ cycles < MaxCycles
    /\ skipped + dt <= MaxClock - clock
    /\ \E now \in {clock + skipped} :
       \E distance \in {ReadDistance(echo)} :
       \E temps \in {get_temperatures(rx \o bytes)} :
       \E step \in {MainLoopBody(ticks_ms(now), distance, temps,
                                 last_valid_body_temp, lastitt)} :
       \E shown \in {update_display(step.mode, step.val, led_a, led_b)} :
       \E sends \in {step.send /\ i2c_ok} :
       \* the POST succeeds or fails; its result is not used
       \E net_ok \in IF sends THEN BOOLEAN ELSE {FALSE} :
          /\ lastitt' = step.lastitt
          /\ last_valid_body_temp' = step.last
          /\ scr' = shown.scr
          /\ led_a' = shown.led_a
          /\ led_b' = shown.led_b
          /\ oled' = IF i2c_ok THEN shown.scr ELSE oled
          /\ lastSeen' = IF is_person_in_range(distance) THEN now ELSE lastSeen
          /\ obs' = [ran |-> TRUE, at |-> now, echo_err |-> echo.err,
                     distance |-> distance,
                     present |-> is_person_in_range(distance),
                     buf |-> rx \o bytes,
                     t_body |-> temps[1], t_amb |-> temps[2],
                     mode |-> step.mode, val |-> step.val,
                     shown |-> i2c_ok,
                     post |-> IF sends
                              THEN send_measurement(temps[1], distance, net_ok)
                              ELSE None]
          /\ clock' = now + dt
    /\ rx' = <<>>
    /\ cycles' = cycles + 1
    /\ UNCHANGED cameraVars

Cycle ==
    \E bytes \in SessionInputs, echo \in SessionEchoes, dt \in CycleTimes :
        Iteration(bytes, echo, 0, dt, TRUE)

\* an iteration during which the display does not answer on the I2C bus
DisplayFault ==
    \E bytes \in {<<>>, MeasurementLine(T3750, A2210)},
       echo \in {Echo(40000), Echo(80001)} :
        Iteration(bytes, echo, 0, 50, FALSE)

\* The last iteration of a run of iterations with nobody in range and
\* nothing received, the run lasting skipped ms: each iteration of such a
\* run leaves lastitt and last_valid_body_temp alone and redraws the
\* screen, so only the last one shows.
AbsentRun ==
    \E skipped \in LongRuns, dt \in {50} :
        Iteration(<<>>, Failed, skipped, dt, TRUE)

Next == Cycle \/ AbsentRun \/ DisplayFault

Spec == Init /\ [][Next]_vars

\* The first iteration after start-up, on every ranging read and every
\* receive buffer of DecoderInputs.
FirstPoll ==
    /\ cycles = 0
    /\ \E bytes \in DecoderInputs, echo \in Echoes : Iteration(bytes, echo, 0, 50, TRUE)

SpecInputs == Init /\ [][FirstPoll]_vars

(***************************************************************************)
(* Claims about the display node.                                          *)
(***************************************************************************)
Absent == obs.ran /\ ~obs.present
\* ms since the last iteration with presence (defined once there was one)
SinceSeen == obs.at - lastSeen

\* C1: in every iteration with presence false, the state is HOLD showing
\* last_valid_body_temp iff less than 5000 ms have passed since the last
\* iteration with presence and last_valid_body_temp exists; otherwise the
\* state is IDLE and no temperature is shown.
C1_HoldWindow ==
    Absent =>
        IF last_valid_body_temp # None /\ lastSeen >= 0 /\ SinceSeen < 5000
        THEN scr.mode = "HOLD" /\ scr.val = last_valid_body_temp
        ELSE scr.mode = "IDLE" /\ scr.val = None

\* C2: after every display update that shows a temperature exactly one
\* indicator is on, the alarm one iff the value is at least 37.5 (37.5
\* alarms, 37.49 does not); after every update to IDLE both are off.
C2_Indicators ==
    obs.ran =>
        /\ scr.val # None =>
              /\ led_a + led_b = 1
              /\ led_b = 1 <=> 2 * scr.val[1] >= 75 * scr.val[2]
        /\ scr.val = T3750 => led_b = 1
        /\ scr.val = T3749 => led_a = 1
        /\ scr.mode = "IDLE" => led_a = 0 /\ led_b = 0

C2_Witness ==
    /\ obs.ran /\ scr.mode = "HOLD" /\ scr.val = T3750
    /\ led_a = 0 /\ led_b = 1

\* C3: presence holds in an iteration iff the distance sample is within
\* 40..80 cm, both ends included, and a failed ranging read counts as
\* distance 0, hence never as presence.
C3_PresenceBand ==
    obs.ran =>
        /\ obs.present <=> (40000 <= obs.distance /\ obs.distance <= 80000)
        /\ scr.mode = "MEASURE" <=> obs.present
        /\ obs.echo_err => obs.distance = 0 /\ ~obs.present

C3_Witness == obs.ran /\ obs.distance = 80000 /\ obs.present /\ scr.mode = "MEASURE"

\* C4: last_valid_body_temp changes only in an iteration with presence
\* whose decoded message carries a body temperature, and becomes that
\* value; in every other iteration, one where a measurement arrives
\* without presence included, it is unchanged.  lastitt becomes the
\* iteration's tick time in every iteration with presence and is unchanged
\* in every iteration without.
C4_SessionFrame ==
    [][ cycles' = cycles + 1 =>
          /\ last_valid_body_temp' =
                IF obs'.present /\ obs'.t_body # None
                THEN obs'.t_body ELSE last_valid_body_temp
          /\ lastitt' = IF obs'.present THEN obs'.at % TICKS_PERIOD ELSE lastitt
      ]_vars

C4_Witness ==
    /\ Absent /\ obs.t_body = T3750 /\ last_valid_body_temp = T3680
    /\ lastitt # obs.at % TICKS_PERIOD

\* C5: in an iteration with presence where the decoder yields no body
\* temperature (heartbeat, malformed line, no data) the state is MEASURE,
\* showing the previous last_valid_body_temp if there is one and the
\* "Pomiar..." placeholder otherwise; the iteration completes and
\* last_valid_body_temp keeps its value.
C5_KeepsPreviousValue ==
    [][ (cycles' = cycles + 1 /\ obs'.present /\ obs'.t_body = None) =>
          /\ scr'.mode = "MEASURE"
          /\ last_valid_body_temp' = last_valid_body_temp
          /\ scr'.val = last_valid_body_temp
          /\ last_valid_body_temp = None => scr'.text = "Pomiar..."
          /\ last_valid_body_temp # None => scr'.text # "Pomiar..."
          /\ obs'.post = None
      ]_vars

C5_Witness ==
    /\ obs.ran /\ obs.present /\ obs.buf = Garbage /\ obs.t_body = None
    /\ scr.mode = "MEASURE" /\ scr.val = T3680

\* the line that ends at the last line feed of buf
LastComplete(buf) ==
    LET ends == {k \in 1..Len(buf) : buf[k] = NL}
        last == CHOOSE k \in ends : \A j \in ends : j <= k
        before == {k \in ends : k < last}
        prev == IF before = {} THEN 0
                ELSE CHOOSE k \in before : \A j \in before : j <= k
    IN SubSeq(buf, prev + 1, last)

\* C6: on a buffer that holds at least one complete line, possibly
\* followed by the first bytes of the next line, the decoder's result is
\* that of the most recently completed line alone.
C6_FreshestCompleteLine ==
    (obs.ran /\ HasChar(obs.buf, NL)) =>
        <<obs.t_body, obs.t_amb>> = get_temperatures(LastComplete(obs.buf))

\* C7: the decoder returns (None, None) for every line that is empty, has
\* fewer than two fields, or has a non-numeric body or ambient field, and
\* it never returns a body value without an ambient value or the reverse.
C7_MalformedIsNoData ==
    obs.ran =>
        /\ obs.buf \in MalformedLines => obs.t_body = None /\ obs.t_amb = None
        /\ obs.t_body = None <=> obs.t_amb = None

C7_Witness == obs.ran /\ obs.buf = BadAmbient /\ obs.t_body = None /\ obs.t_amb = None

\* C8 as stated: decoding the heartbeat "IDLE;FPA:21.30;OBS:0" yields no
\* body value and the ambient value 21.30, a result other than no data.
C8_IdleCarriesAmbient ==
    (obs.ran /\ obs.buf = IdleLine(A2130)) =>
        /\ obs.t_body = None /\ obs.t_amb = A2130
        /\ <<obs.t_body, obs.t_amb>> # get_temperatures(<<>>)

\* C8: decoding a heartbeat line "IDLE;FPA:<a>;OBS:0" yields no body value
\* and no ambient value either, for every ambient a: the result is the
\* one an empty buffer gives.
C8_IdleIsNoData ==
    obs.ran =>
        \A a \in EncodedAmbients \cup {A2130} :
            obs.buf = IdleLine(a) =>
                /\ obs.t_body = None /\ obs.t_amb = None
                /\ <<obs.t_body, obs.t_amb>> = get_temperatures(<<>>)

C8_Witness ==
    obs.ran /\ obs.buf = IdleLine(A2130) /\ obs.t_body = None /\ obs.t_amb = None

within(x, lo, hi) == RLe(lo, x) /\ RLe(x, hi)

\* x is a whole number of hundredths, at most half a hundredth from r
RoundedTo2(x, r) ==
    /\ 100 % x[2] = 0
    /\ 200 * Abs(x[1] * r[2] - r[1] * x[2]) <= x[2] * r[2]

\* C9: a measurement with a body temperature in [32.0, 42.0] and any
\* ambient temperature, written as "%.2f;%.2f\n" and decoded from that
\* line, comes back as body and ambient values equal to the originals
\* rounded to two decimals, never as no data.
C9_RoundTrip ==
    obs.ran =>
        \A b \in EncodedBodies, a \in EncodedAmbients :
            obs.buf = MeasurementLine(b, a) =>
                /\ obs.t_body # None /\ obs.t_amb # None
                /\ RoundedTo2(obs.t_body, b)
                /\ RoundedTo2(obs.t_amb, a)

C9_Witness ==
    /\ obs.ran
    /\ obs.buf = MeasurementLine(R(41996, 1000), R(-5255, 1000))
    /\ obs.t_body = TEMP_MAX

\* C13: an iteration calls send_measurement, once, exactly when a person
\* is in range and a body temperature was decoded, with that temperature
\* (to one decimal) and that iteration's distance (to the centimetre); and
\* whether the POST succeeds changes nothing of last_valid_body_temp,
\* lastitt, the displayed value or the LEDs.
C13_TelemetryPerAcceptedReading ==
    [][ cycles' = cycles + 1 =>
          /\ obs'.post # None <=> (obs'.present /\ obs'.t_body # None)
          /\ obs'.post # None =>
                /\ 2 * Abs(obs'.post.Temperature * obs'.t_body[2]
                           - 10 * obs'.t_body[1]) <= obs'.t_body[2]
                /\ 2 * Abs(obs'.post.Distance * 1000 - obs'.distance) <= 1000
                /\ last_valid_body_temp' = obs'.t_body
                /\ lastitt' = obs'.at % TICKS_PERIOD
                /\ scr'.val = obs'.t_body
                /\ led_a' + led_b' = 1
      ]_vars

C15_QuietStartup ==
    obs.ran =>
        /\ last_valid_body_temp = None =>
              /\ obs.mode # "HOLD"
              /\ scr.val = None /\ oled.val = None
              /\ led_a = 0 /\ led_b = 0
        /\ lastSeen < 0 => obs.mode = "IDLE" /\ last_valid_body_temp = None

C15_Witness ==
    /\ Absent /\ last_valid_body_temp = None
    /\ lastSeen >= 0 /\ SinceSeen < DISPLAY_HOLD_TIME
    /\ obs.mode = "IDLE" /\ oled.mode = "IDLE"

\* C18: an iteration without presence that follows an IDLE iteration is
\* IDLE too, however long nobody has been in range: HOLD is not entered
\* again without an iteration with presence in between.
C18_IdleUntilPresence ==
    [][ (cycles' = cycles + 1 /\ obs.ran /\ obs.mode = "IDLE" /\ ~obs'.present) =>
          obs'.mode = "IDLE"
      ]_vars

\* C20: an LED is on only if the last call of update_display drew a
\* temperature; whenever the "Pomiar..." placeholder is drawn both LEDs
\* are off, although that branch does not write them; and
\* last_valid_body_temp, once set, never becomes None again.
C20_PlaceholderLedsOff ==
    /\ []( obs.ran =>
              /\ (led_a = 1 \/ led_b = 1) => scr.val # None
              /\ scr.text = "Pomiar..." =>
                    led_a = 0 /\ led_b = 0 /\ last_valid_body_temp = None )
    /\ [][ last_valid_body_temp # None => last_valid_body_temp' # None ]_vars

C20_Witness ==
    /\ cycles = 3 /\ obs.present /\ obs.buf = Garbage
    /\ scr.text = "Pomiar..." /\ oled.text = "Pomiar..."
    /\ led_a = 0 /\ led_b = 0

(***************************************************************************)
(* Camera node: bounds, inputs and the main loop.                          *)
(***************************************************************************)
MaxFrames == 3

\* (max_val, bg_level) of a frame with a face: the hottest face pixel and
\* the mean of the anchor region, both 0..255
Thermals == {<<255, 20>>, <<255, 255>>, <<168, 100>>}
FpaTemps == {A2130, R(-525, 100)}

\* the iteration filtering the compensated difference: the offsets of the
\* obstructions enter delta_filtered
Frame_OffsetsFiltered(face_found, thermal, bangs, glasses, fpa_temp) ==
    /\ IF face_found
       THEN \E delta \in {LowPass(delta_filtered, TempChange(thermal[1], thermal[2]))} :
            \E raw_temp \in {RawTemp(delta)} :
            \E final_temp \in {FinalTemp(raw_temp, bangs, glasses)} :
               /\ delta_filtered' =
                     RAdd(delta, RMul(RAdd(IF bangs THEN OFFSET_BANGS ELSE R(0, 1),
                                           IF glasses THEN OFFSET_GLASSES ELSE R(0, 1)),
                                      R(100, 15)))
               /\ cam' = [ran |-> TRUE, face_found |-> TRUE, bangs |-> bangs,
                          glasses |-> glasses,
                          temp_change |-> TempChange(thermal[1], thermal[2]),
                          raw_temp |-> raw_temp, final_temp |-> final_temp,
                          written |-> <<MeasurementLine(final_temp, fpa_temp)>>]
       ELSE /\ delta_filtered' = Decay(delta_filtered)
            /\ cam' = [NoFrame EXCEPT !.ran = TRUE,
                                      !.written = <<IdleLine(fpa_temp)>>]
    /\ wire' = wire \o cam'.written[1]
    /\ emitted' = IF face_found THEN emitted \cup {Round2(cam'.final_temp)}
                  ELSE emitted
    /\ frames' = frames + 1
    /\ UNCHANGED displayVars

\* The part of one iteration of the camera node's main loop that follows
\* detection (lines 173-254).  face_found: a body blob was found and
\* extract_face returned a face in it.
Frame(face_found, thermal, bangs, glasses, fpa_temp) ==
    /\ IF face_found
       THEN \E delta \in {LowPass(delta_filtered, TempChange(thermal[1], thermal[2]))} :
            \E raw_temp \in {RawTemp(delta)} :
            \E final_temp \in {FinalTemp(raw_temp, bangs, glasses)} :
               /\ delta_filtered' = delta
               /\ cam' = [ran |-> TRUE, face_found |-> TRUE, bangs |-> bangs,
                          glasses |-> glasses,
                          temp_change |-> TempChange(thermal[1], thermal[2]),
                          raw_temp |-> raw_temp, final_temp |-> final_temp,
                          written |-> <<MeasurementLine(final_temp, fpa_temp)>>]
       ELSE /\ delta_filtered' = Decay(delta_filtered)
            /\ cam' = [NoFrame EXCEPT !.ran = TRUE,
                                      !.written = <<IdleLine(fpa_temp)>>]
    /\ wire' = wire \o cam'.written[1]
    /\ emitted' = IF face_found THEN emitted \cup {Round2(cam'.final_temp)}
                  ELSE emitted
    /\ frames' = frames + 1
    /\ UNCHANGED displayVars

Img(bodies, faces, thermal, forehead_mean, eyes_mean, roi_checked) ==
    [bodies |-> bodies, faces |-> faces,
     face_max |-> thermal[1], bg_level |-> thermal[2],
     forehead_mean |-> forehead_mean, eyes_mean |-> eyes_mean,
     roi_checked |-> roi_checked]

\* One iteration of the camera node's main loop (the body of  while True)
\* on the image img.  Nothing catches an exception: it ends the script.
Snapshot(img, fpa_temp) ==
    /\ running
    /\ \E main_body \in {IF img.bodies = <<>> THEN None ELSE Largest(img.bodies)} :
       \E face \in {IF main_body = None THEN None
                    ELSE extract_face(img, main_body)} :
       \E features \in {IF face \in {None, Raised} THEN <<FALSE, FALSE>>
                        ELSE analyze_features(img, face)} :
          /\ seen' = [main_body |-> main_body, faces |-> img.faces, face |-> face]
          /\ IF face = Raised \/ features = Raised
             THEN /\ running' = FALSE
                  /\ cam' = [NoFrame EXCEPT !.ran = TRUE]
                  /\ frames' = frames + 1
                  /\ UNCHANGED <<delta_filtered, wire, emitted>>
                  /\ UNCHANGED displayVars
             ELSE /\ running' = TRUE
                  /\ Frame(face # None, <<img.face_max, img.bg_level>>,
                           features[1], features[2], fpa_temp)

\* the band means one below and at the obstruction threshold under face_max
Means(face_max) ==
    {face_max - OBSTRUCTION_THRESHOLD - 1, face_max - OBSTRUCTION_THRESHOLD}

\* a standing person and a smaller warm object; in the head region two
\* blobs of face proportions and one that is too wide
Bodies == <<Blob(30, 50, 900), Blob(40, 100, 2500)>>
Faces == <<Blob(30, 10, 250), Blob(20, 25, 400), Blob(14, 10, 100)>>
\* a warm horizontal edge one pixel row high
FlatBodies == <<Blob(100, 1, 90)>>

FaceImgs ==
    {Img(Bodies, Faces, th, fm, em, TRUE) :
        th \in Thermals, fm \in {255 - 29, 255 - 28, 168 - 29, 168 - 28},
        em \in {255 - 29, 255 - 28, 168 - 29, 168 - 28}}

NoFaceImgs ==
    {Img(<<>>, <<>>, <<0, 0>>, 0, 0, TRUE),
     Img(Bodies, <<>>, <<0, 0>>, 0, 0, TRUE),
     Img(Bodies, <<Blob(30, 10, 250)>>, <<0, 0>>, 0, 0, TRUE)}

FlatImgs == {Img(FlatBodies, <<>>, <<0, 0>>, 0, 0, c) : c \in BOOLEAN}

FaceFrame ==
    /\ frames < MaxFrames
    /\ \E img \in FaceImgs, fpa_temp \in {A2130} :
          /\ img.forehead_mean \in Means(img.face_max)
          /\ img.eyes_mean \in Means(img.face_max)
          /\ Snapshot(img, fpa_temp)

NoFaceFrame ==
    /\ frames < MaxFrames
    /\ \E img \in NoFaceImgs, fpa_temp \in FpaTemps : Snapshot(img, fpa_temp)

\* a frame whose largest blob is one pixel row high
FlatFrame ==
    /\ frames < MaxFrames
    /\ \E img \in FlatImgs, fpa_temp \in {A2130} : Snapshot(img, fpa_temp)

CameraNext == FaceFrame \/ NoFaceFrame \/ FlatFrame

SpecCamera == Init /\ [][CameraNext]_vars

\* C10: for every filtered difference and every combination of the two
\* obstruction flags, the body temperature written in a measurement line
\* lies in [32.0, 42.0].
C10_EmittedInRange ==
    (cam.ran /\ cam.face_found) =>
        /\ within(cam.final_temp, R(32, 1), R(42, 1))
        /\ LET sent == get_temperatures(cam.written[1])[1]
           IN sent # None /\ within(sent, R(32, 1), R(42, 1))

C10_Witness ==
    /\ cam.ran /\ cam.face_found /\ cam.bangs /\ cam.glasses
    /\ RLt(cam.raw_temp, R(42, 1)) /\ RLt(R(42, 1), RAdd(cam.raw_temp, R(7, 10)))
    /\ cam.final_temp = R(42, 1)

(***************************************************************************)
(* The first frame on images with one body and one or two blobs in its     *)
(* head region, of proportions around both ends of the aspect filter.      *)
(***************************************************************************)
FRAME_W == 160
FRAME_H == 120

\* a blob find_blobs can return over the frame with pixels_threshold 80
PossibleBody(b) ==
    /\ 1 <= b[1] /\ b[1] <= FRAME_W /\ 1 <= b[2] /\ b[2] <= FRAME_H
    /\ BODY_MIN_PIXELS <= b[3] /\ b[3] <= b[1] * b[2]

\* a blob find_blobs can return over the head region of body with
\* pixels_threshold 15
PossibleFace(f, body) ==
    /\ 1 <= f[1] /\ f[1] <= body[1] /\ 1 <= f[2] /\ f[2] <= head_h(body)
    /\ FACE_MIN_PIXELS <= f[3] /\ f[3] <= f[1] * f[2]

SceneBody == Blob(100, 120, 6000)

CandidateBoxes ==
    {<<5, 10>>, <<3, 6>>, <<30, 60>>, <<29, 60>>, <<29, 59>>, <<2, 8>>,
     <<7, 5>>, <<14, 10>>, <<84, 60>>, <<85, 60>>, <<83, 59>>, <<8, 2>>,
     <<4, 4>>, <<20, 25>>}

Candidates ==
    {f \in {Blob(b[1], b[2], p) : b \in CandidateBoxes,
                                   p \in {15, 16, 18, 35, 50, 400, 1800}} :
        PossibleFace(f, SceneBody)}

SceneImgs ==
    {Img(<<SceneBody>>, fs, <<168, 100>>, 100, 100, TRUE) :
        fs \in {<<f>> : f \in Candidates}
               \cup {<<f, g>> : f \in Candidates, g \in Candidates}}

\* every bounding box of up to 8 by 8 pixels, alone in the head region
SmallBoxes == {<<w, h>> : w \in 1..8, h \in 1..8}

SmallImgs ==
    {Img(<<SceneBody>>, <<f>>, <<168, 100>>, 100, 100, c) :
        f \in {g \in {Blob(b[1], b[2], p) : b \in SmallBoxes,
                                            p \in {15, 16, 24, 64}} :
                  PossibleFace(g, SceneBody)},
        c \in BOOLEAN}

\* bodies of every height up to 4 and of the full height, at the least and
\* the greatest width and pixel count, with nothing in the head region
BodyImgs ==
    {Img(<<Blob(w, h, p)>>, <<>>, <<0, 0>>, 0, 0, c) :
        w \in {20, 80, 160}, h \in {1, 2, 3, 4, 120}, p \in {80, 160, 2400},
        c \in BOOLEAN}

FirstFrame ==
    /\ frames = 0
    /\ \E img \in SceneImgs \cup SmallImgs \cup BodyImgs :
          /\ \A i \in 1..Len(img.bodies) : PossibleBody(img.bodies[i])
          /\ Snapshot(img, A2130)

SpecFaces == Init /\ [][FirstFrame]_vars

\* C21: for every body blob the loop can select (a bounding box of height
\* h >= 1 inside the 160x120 frame with at least 80 pixels) the head
\* region has height int(h * 0.50) >= 1, and the iteration ends by writing
\* a line.
C21_HeadRegionNonEmpty ==
    (cam.ran /\ seen.main_body # None) =>
        /\ seen.main_body[2] \div 2 >= 1
        /\ running /\ Len(cam.written) = 1

\* C22: for every face extract_face returns (width w, height h, at least
\* 15 and at most w*h pixels, 0.5 <= w/h <= 1.4) the forehead band and the
\* eye band each have height int(h * 0.25) >= 1, do not overlap and lie
\* inside the face rectangle.
C22_BandsInsideFace ==
    (cam.ran /\ seen.face # None /\ seen.face # Raised) =>
        LET fw == seen.face[1]
            fh == seen.face[2]
            top == forehead_roi(seen.face)
            eyes == eyes_roi(seen.face)
        IN /\ top[4] = fh \div 4 /\ eyes[4] = fh \div 4
           /\ top[4] >= 1 /\ eyes[4] >= 1
           /\ top[2] + top[4] <= eyes[2]
           /\ 0 <= top[2] /\ eyes[2] + eyes[4] <= fh
           /\ top[1] = 0 /\ eyes[1] = 0 /\ top[3] = fw /\ eyes[3] = fw
           /\ running /\ cam.face_found

C22_Witness ==
    /\ cam.ran /\ cam.face_found /\ running
    /\ seen.face = Blob(4, 4, 15)
    /\ forehead_roi(seen.face) = <<0, 0, 4, 1>>
    /\ eyes_roi(seen.face) = <<0, 1, 4, 1>>

\* the candidates of the last frame whose w/h lies in [0.5, 1.4]
InBand ==
    {i \in 1..Len(seen.faces) :
        /\ 10 * seen.faces[i][1] >= 5 * seen.faces[i][2]
        /\ 10 * seen.faces[i][1] <= 14 * seen.faces[i][2]}

\* C16: extract_face accepts a candidate of width w and height h iff
\* 0.5 <= w/h <= 1.4, both ends included; it returns an accepted candidate
\* with the most pixels, and None when there are candidates and none is
\* accepted.
C16_AspectFilter ==
    (cam.ran /\ seen.main_body # None /\ seen.faces # <<>>) =>
        /\ InBand = {} => seen.face = None /\ ~cam.face_found
        /\ InBand # {} =>
              /\ cam.face_found
              /\ \E i \in InBand :
                    /\ seen.face = seen.faces[i]
                    /\ \A j \in InBand : seen.faces[j][3] <= seen.faces[i][3]
        /\ seen.faces = <<Blob(30, 60, 1800)>> => seen.face = Blob(30, 60, 1800)
        /\ seen.faces = <<Blob(29, 59, 400)>> => seen.face = None

C16_Witness ==
    /\ cam.ran /\ cam.face_found
    /\ seen.faces = <<Blob(85, 60, 1800), Blob(84, 60, 400)>>
    /\ seen.face = Blob(84, 60, 400)

(***************************************************************************)
(* The camera loop on a scene that does not change: every frame has a face *)
(* with the same thermal difference, or every frame has none.  The run     *)
(* starts from a delta_filtered that earlier frames left behind.           *)
(***************************************************************************)
MaxRun == 5

\* 0 at start-up; 5 after one frame with temp_change 25 and -2 after one
\* with temp_change -10
StartDeltas == {R(0, 1), R(5, 1), R(-2, 1)}

InitSteady ==
    /\ delta_filtered \in StartDeltas
    /\ frames = 0 /\ cam = NoFrame /\ running = TRUE /\ seen = NoSeen
    /\ wire = <<>> /\ emitted = {}
    /\ clock = 0 /\ rx = <<>> /\ last_valid_body_temp = None
    /\ lastitt = ticks_ms(0) - DISPLAY_HOLD_TIME - STARTUP_OFFSET
    /\ led_a = 0 /\ led_b = 0
    /\ scr = [mode |-> "", val |-> None, text |-> ""]
    /\ oled = [mode |-> "", val |-> None, text |-> ""]
    /\ cycles = 0 /\ lastSeen = -1 /\ obs = NoObs

SteadyFace ==
    /\ frames < MaxRun
    /\ \E img \in FaceImgs :
          /\ img.forehead_mean \in Means(img.face_max)
          /\ img.eyes_mean \in Means(img.face_max)
          /\ cam.ran => /\ cam.face_found
                        /\ cam.temp_change = TempChange(img.face_max, img.bg_level)
          /\ Snapshot(img, A2130)

SteadyNoFace ==
    /\ frames < MaxRun
    /\ cam.ran => ~cam.face_found
    /\ \E img \in NoFaceImgs : Snapshot(img, A2130)

SteadyNext == SteadyFace \/ SteadyNoFace

SpecSteady == InitSteady /\ [][SteadyNext]_vars

\* |x| <= k for an integer k
MagnitudeLe(x, k) ==
    \/ Abs(x[1]) \div x[2] < k
    \/ Abs(x[1]) \div x[2] = k /\ Abs(x[1]) % x[2] = 0

\* C12: in a run of face frames with a constant temp_change c the distance
\* of delta_filtered from c is multiplied by 0.8 in every frame and keeps
\* its sign, so that after 5 frames it is below a third of what it was (at
\* most 56 from the starts above); in a run of frames without a face
\* delta_filtered is multiplied by 0.95 in every frame; and the magnitude
\* of delta_filtered never exceeds the largest magnitude temp_change can
\* have on 8-bit pixel values.
C12_FilterConverges ==
    /\ [][ (frames' = frames + 1 /\ cam'.face_found) =>
              RMul(R(5, 1), RAdd(delta_filtered', R(-cam'.temp_change, 1))) =
              RMul(R(4, 1), RAdd(delta_filtered, R(-cam'.temp_change, 1)))
         ]_vars
    /\ [][ (frames' = frames + 1 /\ ~cam'.face_found) =>
              RMul(R(20, 1), delta_filtered') = RMul(R(19, 1), delta_filtered)
         ]_vars
    /\ []( (frames >= 5 /\ cam.face_found) =>
              /\ RLe(RAdd(delta_filtered, R(-cam.temp_change, 1)), R(56, 1))
              /\ RLe(R(-56, 1), RAdd(delta_filtered, R(-cam.temp_change, 1))) )
    /\ []( MagnitudeLe(delta_filtered, 255 + TARGET_DIFF) )

C12_Witness ==
    /\ frames = 5 /\ cam.face_found /\ cam.temp_change = 167
    /\ RLt(delta_filtered, R(167 - 55, 1))
    /\ RLe(R(167 - 56, 1), delta_filtered)

(***************************************************************************)
(* The two nodes on the serial link.  The camera writes whole lines; the   *)
(* UART carries them byte by byte into the display node's receive buffer,  *)
(* and the display node polls whenever its loop comes round.               *)
(***************************************************************************)
MaxLinkFrames == 2

LinkImgs ==
    {Img(Bodies, Faces, <<255, 20>>, 255, 255, TRUE),
     Img(<<>>, <<>>, <<0, 0>>, 0, 0, TRUE)}

\* the camera processes a frame and writes its line
LinkSend ==
    /\ frames < MaxLinkFrames
    /\ \E img \in LinkImgs : Snapshot(img, A2130)

\* the next k bytes arrive in the receive buffer
LinkDeliver ==
    /\ cycles < MaxCycles
    /\ \E k \in 1..Len(wire) :
          /\ rx' = rx \o SubSeq(wire, 1, k)
          /\ wire' = SubSeq(wire, k + 1, Len(wire))
    /\ UNCHANGED <<clock, last_valid_body_temp, lastitt, led_a, led_b, scr,
                   oled, cycles, lastSeen, obs>>
    /\ UNCHANGED <<delta_filtered, frames, cam, running, seen, emitted>>

\* the display node runs an iteration on what has arrived
LinkPoll ==
    \E echo \in {Echo(40000), Echo(80001)} : Iteration(<<>>, echo, 0, 50, TRUE)

LinkNext == LinkSend \/ LinkDeliver \/ LinkPoll

SpecLink == Init /\ [][LinkNext]_vars

\* C17: however the camera's writes, the transmission and the display
\* node's polls interleave, also when a poll finds only the first part of
\* a line, a value in last_valid_body_temp equals, to two decimals, a body
\* temperature the camera wrote, and lies in [32.0, 42.0].
C17_AcceptsOnlyEmitted ==
    last_valid_body_temp # None =>
        /\ Round2(last_valid_body_temp) \in emitted
        /\ within(last_valid_body_temp, TEMP_MIN, TEMP_MAX)

(***************************************************************************)
(* Claims about the camera node's loop.                                    *)
(***************************************************************************)
\* the number of line feeds in text
Lines(text) == Cardinality({k \in 1..Len(text) : text[k] = NL})

\* what the iteration appended to the serial stream
Appended(before, after) == SubSeq(after, Len(before) + 1, Len(after))

\* C11: every iteration of the camera loop either finds a face, replaces
\* delta_filtered by delta_filtered*0.8 + temp_change*0.2 and writes exactly
\* one measurement line, or finds none, replaces delta_filtered by
\* delta_filtered*0.95 and writes exactly one IDLE line; none writes no line.
C11_OneUpdateOneLine ==
    [][ frames' = frames + 1 =>
          LET out == Appended(wire, wire')
          IN /\ SubSeq(wire', 1, Len(wire)) = wire
             /\ Lines(out) = 1 /\ out[Len(out)] = NL
             /\ IF cam'.face_found
                THEN /\ RMul(R(10, 1), delta_filtered') =
                           RAdd(RMul(R(8, 1), delta_filtered),
                                R(2 * cam'.temp_change, 1))
                     /\ ~Contains(out, IDLE_TAG)
                     /\ get_temperatures(out)[1] # None
                ELSE /\ RMul(R(100, 1), delta_filtered') =
                           RMul(R(95, 1), delta_filtered)
                     /\ Contains(out, IDLE_TAG)
      ]_vars

\* the offset the flags of the last frame add
Compensation ==
    RAdd(IF cam.bangs THEN R(2, 10) ELSE R(0, 1),
         IF cam.glasses THEN R(5, 10) ELSE R(0, 1))

\* C19: in a frame with a face the value before clamping is
\* 36.6 + delta_filtered*0.15, plus 0.2 with bangs and 0.5 with glasses
\* (0.7 with both), and the new delta_filtered is 0.8 times the old one plus
\* 0.2 times temp_change whatever the flags are: the flags of a frame do
\* not enter the state the later frames start from.
C19_FlagsNotPersisted ==
    /\ []( (cam.ran /\ cam.face_found) =>
              /\ cam.raw_temp = RAdd(R(366, 10), RMul(delta_filtered, R(15, 100)))
              /\ cam.final_temp =
                    RMax(R(32, 1), RMin(R(42, 1), RAdd(cam.raw_temp, Compensation))) )
    /\ [][ (frames' = frames + 1 /\ cam'.face_found) =>
              RMul(R(10, 1), delta_filtered') =
                  RAdd(RMul(R(8, 1), delta_filtered), R(2 * cam'.temp_change, 1))
         ]_vars

C19_Witness ==
    /\ frames = 2 /\ cam.face_found /\ ~cam.bangs /\ ~cam.glasses
    /\ cam.temp_change = 0
    /\ delta_filtered = R(167 * 16, 100)
    /\ cam.final_temp = cam.raw_temp
    /\ Lines(wire) = 2 /\ get_temperatures(ReadLine(wire))[1] = TEMP_MAX

=============================================================================
